---- MODULE Spec2Model ----
(***************************************************************************)
(* A model of bibliography.py: the two canonicalizers (canonicalize_author *)
(* and canonicalize_title), the VARS registry, and the prompt chain of     *)
(* CreateBibliographyEntryCommand (run / get_next_input_or_insert).        *)
(*                                                                         *)
(* A Python str is modelled as a sequence of one-character strings, so     *)
(* that find, slicing, strip, re.sub and re.findall are computed character *)
(* by character as the code computes them.  Indices are 0-based as in      *)
(* Python; -1 is "not found".  The input alphabet holds no backslash, so   *)
(* the replacement text handed to re.sub is always taken literally.        *)
(***************************************************************************)
EXTENDS Integers, Sequences, FiniteSets

VARIABLES
  \* ---- one session of CreateBibliographyEntryCommand
  pc,        \* "start" | "prompt" | "inserted" | "raised"
  sel,       \* the text of the view's first selection (empty: no selection)
  entry,     \* the entry string bound in the pending callback
  var,       \* the variable the input panel asks for ("none" when no panel)
  caption,   \* the caption of the input panel ("" when no panel)
  inserted,  \* the characters handed to the "insert" command
  prompts,   \* history: the variables prompted for, in order
  supplied,  \* history: the (var, text) pairs substituted, in order
  \* ---- one call of a canonicalizer, statement by statement
  fn,        \* "author" | "title" | "none"
  input,     \* the argument of the call
  value,     \* the local variable `value`
  et_all,    \* the local variable `et_all`
  cpc,       \* position in the function body
  ret        \* the returned string (when cpc = "done")

sessionVars == <<pc, sel, entry, var, caption, inserted, prompts, supplied>>
canonVars == <<fn, input, value, et_all, cpc, ret>>
vars == <<pc, sel, entry, var, caption, inserted, prompts, supplied,
          fn, input, value, et_all, cpc, ret>>

----------------------------------------------------------------------------
(* Bounds *)

\* Longest canonicalizer argument, in pieces of AuthorPieces / TitlePieces.
MaxPieces == 5
\* Most substitution steps of one session the model follows.
MaxSteps == 6

----------------------------------------------------------------------------
(* Python string primitives *)

\* s[lo:hi] for 0 <= lo, hi <= len(s)
Slice(s, lo, hi) == SubSeq(s, lo + 1, hi)

\* s.startswith(p, i)
StartsWithAt(s, p, i) ==
  /\ i + Len(p) <= Len(s)
  /\ \A k \in 1..Len(p) : s[i + k] = p[k]

RECURSIVE FindFrom(_, _, _)
FindFrom(s, p, i) ==
  IF i + Len(p) > Len(s) THEN -1
  ELSE IF StartsWithAt(s, p, i) THEN i
  ELSE FindFrom(s, p, i + 1)

\* s.find(p)
Find(s, p) == FindFrom(s, p, 0)

LowerChar(c) ==
  CASE c = "E" -> "e"
    [] c = "T" -> "t"
    [] c = "A" -> "a"
    [] c = "L" -> "l"
    [] OTHER -> c

\* s.lower()
Lower(s) == [k \in 1..Len(s) |-> LowerChar(s[k])]

RECURSIVE LStrip(_)
LStrip(s) == IF s # <<>> /\ Head(s) = " " THEN LStrip(Tail(s)) ELSE s

RECURSIVE RStrip(_)
RStrip(s) ==
  IF s # <<>> /\ s[Len(s)] = " " THEN RStrip(Slice(s, 0, Len(s) - 1)) ELSE s

\* s.strip()
Strip(s) == RStrip(LStrip(s))

\* A call that returned r, and a call that raised IndexError.
Returned(r) == [ok |-> TRUE, val |-> r]
IndexError == [ok |-> FALSE, val |-> <<>>]

----------------------------------------------------------------------------
(* canonicalize_author *)

EtAll == <<"e", "t", " ", "a", "l", "l">>

\* lines 34-35
StripPeriod(v) ==
  IF v[Len(v)] = "." THEN Slice(v, 0, Len(v) - 1) ELSE v

\* lines 38-42, the local et_all
FoundEtAll(v) == IF Find(Lower(v), EtAll) > -1 THEN EtAll ELSE <<>>

\* lines 38-42, the local value
StripEtAll(v) ==
  LET i == Find(Lower(v), EtAll)
  IN IF i > -1 THEN Slice(v, 0, i) \o Slice(v, i + Len(EtAll), Len(v)) ELSE v

\* Reorder without the test for a comma.
ReorderAnyComma(v) ==
  LET i == Find(v, <<" ">>)
  IN IF i > 0
     THEN Strip(Slice(v, i, Len(v))) \o <<",", " ">> \o Strip(Slice(v, 0, i))
     ELSE v

\* lines 46-52
Reorder(v) ==
  IF Find(v, <<",">>) = -1
  THEN LET i == Find(v, <<" ">>)
       IN IF i > 0
          THEN Strip(Slice(v, i, Len(v))) \o <<",", " ">> \o Strip(Slice(v, 0, i))
          ELSE v
  ELSE v

\* MoveEtAll without the strip.
MoveEtAllUntrimmed(v, e) == IF e # <<>> THEN v \o <<" ">> \o e ELSE v

\* lines 55-56
MoveEtAll(v, e) == IF e # <<>> THEN Strip(v) \o <<" ">> \o e ELSE v

\* lines 60-63: value[-1] of an empty string raises IndexError
FinalStripPeriod(v) ==
  IF v = <<>> THEN IndexError ELSE Returned(StripPeriod(v))

\* lines 27-63
canonicalize_author(v) ==
  IF v = <<>> THEN Returned(<<>>)
  ELSE LET v1 == StripPeriod(v)
       IN FinalStripPeriod(MoveEtAll(Reorder(StripEtAll(v1)), FoundEtAll(v1)))

----------------------------------------------------------------------------
(* canonicalize_title *)

\* lines 78-79
StripLeadingQuote(v) == IF v[1] = "\"" THEN Tail(v) ELSE v

\* lines 80-83: value[-1] of an empty string raises IndexError
StripTrailingQuote(v) ==
  IF v = <<>> THEN IndexError
  ELSE IF v[Len(v)] = "\"" THEN Returned(Slice(v, 0, Len(v) - 1))
  ELSE Returned(v)

\* lines 75-83
canonicalize_title(v) ==
  IF v = <<>> THEN Returned(<<>>) ELSE StripTrailingQuote(StripLeadingQuote(v))

----------------------------------------------------------------------------
(* The template and the VARS registry *)

Names == <<"author", "title", "pubdate", "ref">>

\* The characters of a variable's name.
NameChars(n) ==
  CASE n = "author"  -> <<"a", "u", "t", "h", "o", "r">>
    [] n = "title"   -> <<"t", "i", "t", "l", "e">>
    [] n = "pubdate" -> <<"p", "u", "b", "d", "a", "t", "e">>
    [] n = "ref"     -> <<"r", "e", "f">>

\* "<%s>" % var
Pattern(n) == <<"<">> \o NameChars(n) \o <<">">>

\* TEMPLATE = "<author> <title> <pubdate> <ref>"
TEMPLATE ==
  Pattern("author") \o <<" ">> \o Pattern("title") \o <<" ">>
    \o Pattern("pubdate") \o <<" ">> \o Pattern("ref")

\* The element "%s" of a template stands for the conversion specifier.
VARS ==
  [ author  |-> [ caption  |-> "Author (Last, First)",
                  template |-> <<"%s", ".">>,
                  filter   |-> "canonicalize_author" ],
    title   |-> [ caption  |-> "Title",
                  template |-> <<"\"", "%s", "\"">>,
                  filter   |-> "canonicalize_title" ],
    pubdate |-> [ caption  |-> "Publication Date (DD MMM YYYY)",
                  template |-> <<"%s", ".">>,
                  filter   |-> "None" ],
    ref     |-> [ caption  |-> "Reference",
                  template |-> <<"<", "<", "%s", ">", ">">>,
                  filter   |-> "None" ] ]

\* filter_fn(text)
ApplyFilter(f, text) ==
  CASE f = "canonicalize_author" -> canonicalize_author(text)
    [] f = "canonicalize_title"  -> canonicalize_title(text)
    [] OTHER                     -> Returned(text)

\* template % text
RECURSIVE Format(_, _)
Format(t, text) ==
  IF t = <<>> THEN <<>>
  ELSE (IF Head(t) = "%s" THEN text ELSE <<Head(t)>>) \o Format(Tail(t), text)

\* re.sub(pat, repl, s) for a literal pattern and a backslash-free repl:
\* every non-overlapping occurrence, leftmost first, is replaced.
RECURSIVE ReSubFrom(_, _, _, _)
ReSubFrom(pat, repl, s, i) ==
  IF i >= Len(s) THEN <<>>
  ELSE IF StartsWithAt(s, pat, i)
       THEN repl \o ReSubFrom(pat, repl, s, i + Len(pat))
       ELSE <<s[i + 1]>> \o ReSubFrom(pat, repl, s, i + 1)

ReSub(pat, repl, s) == ReSubFrom(pat, repl, s, 0)

\* The alternative of (author|title|pubdate|ref) that "<(...)>" matches at i.
MatchAt(s, i) ==
  IF StartsWithAt(s, Pattern("author"), i) THEN "author"
  ELSE IF StartsWithAt(s, Pattern("title"), i) THEN "title"
  ELSE IF StartsWithAt(s, Pattern("pubdate"), i) THEN "pubdate"
  ELSE IF StartsWithAt(s, Pattern("ref"), i) THEN "ref"
  ELSE "none"

\* re.findall("<(author|title|pubdate|ref)>", s): the groups, in order.
RECURSIVE FindAllFrom(_, _)
FindAllFrom(s, i) ==
  IF i >= Len(s) THEN <<>>
  ELSE LET m == MatchAt(s, i)
       IN IF m # "none"
          THEN <<m>> \o FindAllFrom(s, i + Len(Pattern(m)))
          ELSE FindAllFrom(s, i + 1)

FindAll(s) == FindAllFrom(s, 0)

----------------------------------------------------------------------------
(* CreateBibliographyEntryCommand *)

\* get_next_input_or_insert, lines 153-160: the entry after substituting
\* text for <v>, or IndexError when the filter raises.
Substitute(e, v, text) ==
  LET filtered == IF text # <<>> /\ VARS[v].filter # "None"
                  THEN ApplyFilter(VARS[v].filter, text)
                  ELSE Returned(text)
  IN IF ~filtered.ok THEN IndexError
     ELSE LET wrapped == IF filtered.val # <<>>
                         THEN Format(VARS[v].template, filtered.val)
                         ELSE <<>>
          IN Returned(Strip(ReSub(Pattern(v), wrapped, e)))

\* get_next_input_or_insert(edit, entry, var, text), lines 150-169.
\* v = "none" is var=None (then text is not used).
get_next_input_or_insert(e, v, text) ==
  LET sub == IF v # "none" THEN Substitute(e, v, text) ELSE Returned(e)
  IN IF ~sub.ok
     THEN /\ pc' = "raised"
          /\ UNCHANGED <<entry, var, caption, inserted, prompts>>
     ELSE LET found == FindAll(sub.val)
          IN /\ entry' = sub.val
             /\ IF Len(found) > 0
                THEN /\ pc' = "prompt"
                     /\ var' = found[1]
                     /\ caption' = VARS[found[1]].caption
                     /\ prompts' = Append(prompts, found[1])
                     /\ UNCHANGED inserted
                ELSE /\ pc' = "inserted"
                     /\ var' = "none"
                     /\ caption' = ""
                     /\ inserted' = sub.val
                     /\ UNCHANGED prompts

\* The texts a user types into the input panel.
PanelTexts ==
  { <<>>,
    <<"a">>,
    <<"a", " ", "b">>,
    <<".">>,
    <<"\"">>,
    <<"\"", "t", "\"">>,
    NameChars("author"),
    Pattern("pubdate") }

\* The texts the first selection of the view may hold.
SelectionTexts == { <<>>, <<"r">>, NameChars("author") }

NoCall ==
  /\ fn = "none" /\ input = <<>> /\ value = <<>> /\ et_all = <<>>
  /\ cpc = "idle" /\ ret = <<>>

Init ==
  /\ NoCall
  /\ pc = "start"
  /\ sel \in SelectionTexts
  /\ entry = <<>>
  /\ var = "none"
  /\ caption = ""
  /\ inserted = <<>>
  /\ prompts = <<>>
  /\ supplied = <<>>

\* run, lines 172-179
run ==
  /\ pc = "start"
  /\ IF Len(sel) > 0
     THEN /\ get_next_input_or_insert(TEMPLATE, "ref", sel)
          /\ supplied' = Append(supplied, [var |-> "ref", text |-> sel])
     ELSE /\ get_next_input_or_insert(TEMPLATE, "none", <<>>)
          /\ UNCHANGED supplied
  /\ UNCHANGED sel
  /\ UNCHANGED canonVars

\* The done callback of the input panel, line 166:
\* partial(self.get_next_input_or_insert, edit, entry, var)(text)
on_done ==
  /\ pc = "prompt"
  /\ Len(supplied) < MaxSteps
  /\ \E text \in PanelTexts :
       /\ get_next_input_or_insert(entry, var, text)
       /\ supplied' = Append(supplied, [var |-> var, text |-> text])
  /\ UNCHANGED sel
  /\ UNCHANGED canonVars

Next ==
  \/ run
  \/ on_done

Spec == Init /\ [][Next]_vars

----------------------------------------------------------------------------
(* One call of a canonicalizer, followed statement by statement *)

AuthorPieces ==
  { <<"a">>, <<"b">>, <<" ">>, <<".">>, <<",">>,
    EtAll, <<"E", "t", " ", "A", "l", "l">> }

TitlePieces == { <<"\"">>, <<"a">>, <<" ">>, <<".">> }

\* The strings made of at most n pieces of P.
RECURSIVE Words(_, _)
Words(P, n) ==
  IF n = 0 THEN {<<>>}
  ELSE LET W == Words(P, n - 1) IN W \cup {w \o p : w \in W, p \in P}

NoSession ==
  /\ pc = "idle" /\ sel = <<>> /\ entry = <<>> /\ var = "none"
  /\ caption = "" /\ inserted = <<>> /\ prompts = <<>> /\ supplied = <<>>

InitCanon ==
  /\ NoSession
  /\ fn \in {"author", "title"}
  /\ input \in (IF fn = "author" THEN Words(AuthorPieces, MaxPieces)
                                 ELSE Words(TitlePieces, MaxPieces))
  /\ value = input
  /\ et_all = EtAll
  /\ cpc = "entry"
  /\ ret = <<>>

\* canonicalize_author, lines 27-35
AuthorStripPeriod ==
  /\ fn = "author" /\ cpc = "entry"
  /\ IF value = <<>>
     THEN cpc' = "done" /\ ret' = <<>> /\ UNCHANGED value
     ELSE cpc' = "etall" /\ value' = StripPeriod(value) /\ UNCHANGED ret
  /\ UNCHANGED <<fn, input, et_all>>
  /\ UNCHANGED sessionVars

\* canonicalize_author, lines 38-42
AuthorStripEtAll ==
  /\ fn = "author" /\ cpc = "etall"
  /\ value' = StripEtAll(value)
  /\ et_all' = FoundEtAll(value)
  /\ cpc' = "reorder"
  /\ UNCHANGED <<fn, input, ret>>
  /\ UNCHANGED sessionVars

\* canonicalize_author, lines 46-52
AuthorReorder ==
  /\ fn = "author" /\ cpc = "reorder"
  /\ value' = Reorder(value)
  /\ cpc' = "move"
  /\ UNCHANGED <<fn, input, et_all, ret>>
  /\ UNCHANGED sessionVars

\* canonicalize_author, lines 55-56
AuthorMoveEtAll ==
  /\ fn = "author" /\ cpc = "move"
  /\ value' = MoveEtAll(value, et_all)
  /\ cpc' = "strip"
  /\ UNCHANGED <<fn, input, et_all, ret>>
  /\ UNCHANGED sessionVars

\* canonicalize_author, lines 60-63
AuthorReturn ==
  /\ fn = "author" /\ cpc = "strip"
  /\ LET r == FinalStripPeriod(value)
     IN IF r.ok
        THEN cpc' = "done" /\ value' = r.val /\ ret' = r.val
        ELSE cpc' = "raised" /\ UNCHANGED <<value, ret>>
  /\ UNCHANGED <<fn, input, et_all>>
  /\ UNCHANGED sessionVars

\* canonicalize_title, lines 75-79
TitleLeadingQuote ==
  /\ fn = "title" /\ cpc = "entry"
  /\ IF value = <<>>
     THEN cpc' = "done" /\ ret' = <<>> /\ UNCHANGED value
     ELSE cpc' = "trailing" /\ value' = StripLeadingQuote(value) /\ UNCHANGED ret
  /\ UNCHANGED <<fn, input, et_all>>
  /\ UNCHANGED sessionVars

\* canonicalize_title, lines 80-83
TitleReturn ==
  /\ fn = "title" /\ cpc = "trailing"
  /\ LET r == StripTrailingQuote(value)
     IN IF r.ok
        THEN cpc' = "done" /\ value' = r.val /\ ret' = r.val
        ELSE cpc' = "raised" /\ UNCHANGED <<value, ret>>
  /\ UNCHANGED <<fn, input, et_all>>
  /\ UNCHANGED sessionVars

NextCanon ==
  \/ AuthorStripPeriod
  \/ AuthorStripEtAll
  \/ AuthorReorder
  \/ AuthorMoveEtAll
  \/ AuthorReturn
  \/ TitleLeadingQuote
  \/ TitleReturn

SpecCanon == InitCanon /\ [][NextCanon]_vars

----------------------------------------------------------------------------
(* Properties of the canonicalizers, under SpecCanon *)

HasEtAll(s) == Find(Lower(s), EtAll) > -1
HasComma(s) == Find(s, <<",">>) > -1
EndsWithPeriod(s) == s # <<>> /\ s[Len(s)] = "."
WithoutTrailingPeriod(s) ==
  IF EndsWithPeriod(s) THEN Slice(s, 0, Len(s) - 1) ELSE s

\* The value canonicalize_author reorders: the argument after the removal
\* of one trailing period and of "et all".
BeforeReorder(s) == StripEtAll(WithoutTrailingPeriod(s))

\* C3: canonicalize_author and canonicalize_title return a string for every
\* input; no call ends by raising.
C3_NeverRaises == cpc # "raised"

\* C6: when the value to reorder holds no comma, the reordering statement
\* turns it into "<last>, <first>" (first: the text before the first space,
\* last: the trimmed text after it) if it holds a space, and leaves it
\* unchanged if it holds none.
C6_Reordered ==
  (fn = "author" /\ cpc = "move" /\ ~HasComma(BeforeReorder(input))) =>
    LET v == BeforeReorder(input)
        i == Find(v, <<" ">>)
    IN value = IF i > -1
               THEN Strip(Slice(v, i, Len(v))) \o <<",", " ">> \o Slice(v, 0, i)
               ELSE v

\* C7 as stated: an input holding "et all" (any case) yields the
\* right-trimmed reordered/unchanged name, one space and "et all"; an input
\* without it yields the name with nothing appended.
C7_RightTrimmed ==
  (fn = "author" /\ cpc = "done" /\ input # <<>>) =>
    LET name == Reorder(BeforeReorder(input))
    IN IF HasEtAll(input)
       THEN ret = RStrip(name) \o <<" ">> \o EtAll
       ELSE ret \in {name, WithoutTrailingPeriod(name)}

\* C7 as amended: an input holding "et all" (any case) never raises and
\* yields the reordered/unchanged name trimmed at BOTH ends, one space and
\* "et all"; an input without it yields the name with nothing appended.
C7_Trimmed ==
  /\ (fn = "author" /\ HasEtAll(input)) => cpc # "raised"
  /\ (fn = "author" /\ cpc = "done" /\ input # <<>>) =>
       LET name == Reorder(BeforeReorder(input))
       IN IF HasEtAll(input)
          THEN ret = Strip(name) \o <<" ">> \o EtAll
          ELSE ret \in {name, WithoutTrailingPeriod(name)}

\* A call on "a b et all" has returned "b, a et all".
C7_Witness ==
  /\ fn = "author" /\ cpc = "done"
  /\ input = <<"a", " ", "b", " ">> \o EtAll
  /\ ret = <<"b", ",", " ", "a", " ">> \o EtAll

\* C8 as stated: a string holding a comma and not ending with a period is
\* returned unchanged, so a second application changes nothing either.
C8_CommaFixedPoint ==
  (fn = "author" /\ cpc \in {"done", "raised"}
     /\ HasComma(input) /\ ~EndsWithPeriod(input)) =>
    /\ cpc = "done"
    /\ ret = input
    /\ canonicalize_author(ret) = Returned(ret)

\* C8 as amended: a string holding a comma, not ending with a period and
\* not holding "et all" (any case) is returned unchanged, so a second
\* application changes nothing either.
C8_CommaNoEtAllFixedPoint ==
  (fn = "author" /\ cpc \in {"done", "raised"}
     /\ HasComma(input) /\ ~EndsWithPeriod(input) /\ ~HasEtAll(input)) =>
    /\ cpc = "done"
    /\ ret = input
    /\ canonicalize_author(ret) = Returned(ret)

\* A call on "b, a" has returned.
C8_Witness ==
  /\ fn = "author" /\ cpc = "done"
  /\ input = <<"b", ",", " ", "a">>

\* C9: canonicalize_title returns its input without its first character if
\* that is a double quote, and then without the remaining last character if
\* that is a double quote; in particular a lone double quote yields "".
C9_TitleResult ==
  (fn = "title" /\ cpc \in {"done", "raised"}) =>
    LET a == IF input # <<>> /\ input[1] = "\"" THEN Tail(input) ELSE input
        b == IF a # <<>> /\ a[Len(a)] = "\""
             THEN Slice(a, 0, Len(a) - 1) ELSE a
    IN cpc = "done" /\ ret = b
----------------------------------------------------------------------------
(* Properties of a session, under Spec *)

HasToken(e, n) == Find(e, Pattern(n)) > -1
NoTokens(e) == \A k \in 1..Len(Names) : ~HasToken(e, Names[k])
SuppliedVars == [k \in 1..Len(supplied) |-> supplied[k].var]
TimesSupplied(n) == Cardinality({k \in 1..Len(supplied) : supplied[k].var = n})
Running == pc \in {"prompt", "inserted"}

\* The text last supplied for n.
TextOf(n) ==
  LET ks == {k \in 1..Len(supplied) : supplied[k].var = n}
  IN supplied[CHOOSE k \in ks : \A j \in ks : j <= k].text

\* The wrapped value of text for n: the canonicalized text in n's wrap
\* format, or nothing when it is empty.
Wrapped(n, text) ==
  LET c == ApplyFilter(VARS[n].filter, text).val
  IN IF c = <<>> THEN <<>> ELSE Format(VARS[n].template, c)

\* The four wrapped values, in template order, joined by single spaces.
Joined ==
  Wrapped("author", TextOf("author")) \o <<" ">>
    \o Wrapped("title", TextOf("title")) \o <<" ">>
    \o Wrapped("pubdate", TextOf("pubdate")) \o <<" ">>
    \o Wrapped("ref", TextOf("ref"))

\* A text with no space at either end and no two spaces in a row.
NoStraySpace(t) == t = Strip(t) /\ Find(t, <<" ", " ">>) = -1

\* The leftmost placeholder token of e.
Leftmost(e) ==
  CHOOSE n \in {"author", "title", "pubdate", "ref"} :
    /\ HasToken(e, n)
    /\ \A m \in {"author", "title", "pubdate", "ref"} :
         HasToken(e, m) => Find(e, Pattern(n)) <= Find(e, Pattern(m))

IsPrefix(p, q) == Len(p) <= Len(q) /\ \A k \in 1..Len(p) : p[k] = q[k]

\* C1: a placeholder that has been substituted occurs in the entry in no
\* later state, and the entry holds no placeholder exactly when all four
\* fields have been supplied.
C1_NoTokenReappears ==
  Running =>
    /\ \A k \in 1..Len(supplied) : ~HasToken(entry, supplied[k].var)
    /\ NoTokens(entry) <=> (\A k \in 1..Len(Names) : TimesSupplied(Names[k]) > 0)

\* C2: once an empty text has been supplied for a field, its segment is
\* absent and the entry holds no two consecutive spaces (the supplied texts
\* holding no stray space themselves), after that step and when inserted.
C2_NoDoubleSpace ==
  (Running /\ \A k \in 1..Len(supplied) : NoStraySpace(supplied[k].text)) =>
    \A k \in 1..Len(supplied) :
      supplied[k].text = <<>> =>
        /\ ~HasToken(entry, supplied[k].var)
        /\ Find(entry, <<" ", " ">>) = -1

\* C4: when author, title, pubdate and ref have been supplied in sequence,
\* the inserted entry is the four wrapped values joined by single spaces
\* (up to the surrounding whitespace, which each step trims).
C4_InsertedIsJoin ==
  (pc = "inserted" /\ SuppliedVars = Names) => inserted = Strip(Joined)

\* C5: the field prompted for is the leftmost placeholder of the entry,
\* under its registered caption; without a selection the prompts come in
\* the order author, title, pubdate, ref; with one, ref is substituted
\* first from the selection and the prompts are author, title, pubdate.
C5_DiscoveryOrder ==
  /\ pc = "prompt" =>
       /\ var = Leftmost(entry)
       /\ caption = VARS[var].caption
  /\ (Running /\ sel = <<>>) => IsPrefix(prompts, Names)
  /\ (Running /\ sel # <<>>) =>
       /\ supplied[1] = [var |-> "ref", text |-> sel]
       /\ IsPrefix(prompts, <<"author", "title", "pubdate">>)

\* C10: no step of a session fails, no field is substituted twice, there
\* are at most four substitution steps, and the entry is inserted after
\* each of the four fields has been substituted exactly once.
C10_EachFieldOnce ==
  /\ pc # "raised"
  /\ \A k \in 1..Len(Names) : TimesSupplied(Names[k]) <= 1
  /\ Len(supplied) <= 4
  /\ pc = "inserted" => \A k \in 1..Len(Names) : TimesSupplied(Names[k]) = 1

====
